---- MODULE Spec2Model ----
(***************************************************************************)
(* A model of packages/compiler-cli/src/ngtsc/translator/src/translator.ts *)
(* : the translation of the output AST (statements and expressions of      *)
(* @angular/compiler) into TypeScript nodes.                               *)
(*                                                                         *)
(* A nullable span or node of the source (T|null) is a sequence of length  *)
(* 0 or 1.  A TypeScript node is a record; its `id` names the       *)
(* allocation that made it: the path of the visited AST node (the child    *)
(* indexes from the root) and the role of the node in that visit.          *)
(***************************************************************************)
EXTENDS Integers, Sequences, FiniteSets, TLC

Null == <<>>
Some(x) == <<x>>
\* a string|null that is null, and an Expression|undefined that is undefined
NoName == "<null>"
Undefined == [k |-> "undefined"]

\* ------------------------------------------------------------------ bounds
\* the deepest nesting of the enumerated statement/expression chains
MaxDepth == 2
\* the most expressions of an enumerated localized string
MaxExprs == 2
\* the longest text of an enumerated leading comment
MaxCommentLen == 3

\* ------------------------------------------------------------ ts.ScriptTarget
ES3 == 0
ES5 == 1
ES2015 == 2
ES2016 == 3
ScriptTargets == {ES3, ES5, ES2015, ES2016}

\* ------------------------------------------------------------------ Context
Context(isStatement) == [isStatement |-> isStatement]
withExpressionMode(context) == IF context.isStatement THEN Context(FALSE) ELSE context
withStatementMode(context) == IF ~context.isStatement THEN Context(TRUE) ELSE context

\* ------------------------------------------------- the output AST (the input)
\* ParseSourceSpan: start.file.url, start.offset, end.offset
ParseSourceSpan(url, start, end) == [url |-> url, start |-> start, end |-> end]

NoComments == [defined |-> FALSE, list |-> <<>>]
LeadingComments(list) == [defined |-> TRUE, list |-> list]
LeadingComment(text, multiline, trailingNewline) ==
    [text |-> text, multiline |-> multiline, trailingNewline |-> trailingNewline]

StatementKinds ==
    {"DeclareVarStmt", "DeclareFunctionStmt", "ExpressionStatement", "ReturnStatement",
     "ClassStmt", "IfStmt", "TryCatchStmt", "ThrowStmt"}

DeclareVarStmt(name, value, final, sourceSpan, leadingComments) ==
    [k |-> "DeclareVarStmt", name |-> name, value |-> value, final |-> final,
     sourceSpan |-> sourceSpan, leadingComments |-> leadingComments]
DeclareFunctionStmt(name, params, statements, sourceSpan, leadingComments) ==
    [k |-> "DeclareFunctionStmt", name |-> name, params |-> params, statements |-> statements,
     sourceSpan |-> sourceSpan, leadingComments |-> leadingComments]
ExpressionStatement(expr, sourceSpan, leadingComments) ==
    [k |-> "ExpressionStatement", expr |-> expr,
     sourceSpan |-> sourceSpan, leadingComments |-> leadingComments]
ReturnStatement(value, sourceSpan, leadingComments) ==
    [k |-> "ReturnStatement", value |-> value,
     sourceSpan |-> sourceSpan, leadingComments |-> leadingComments]
ClassStmt(name, sourceSpan, leadingComments) ==
    [k |-> "ClassStmt", name |-> name,
     sourceSpan |-> sourceSpan, leadingComments |-> leadingComments]
IfStmt(condition, trueCase, falseCase, sourceSpan, leadingComments) ==
    [k |-> "IfStmt", condition |-> condition, trueCase |-> trueCase, falseCase |-> falseCase,
     sourceSpan |-> sourceSpan, leadingComments |-> leadingComments]
TryCatchStmt(bodyStmts, catchStmts, sourceSpan, leadingComments) ==
    [k |-> "TryCatchStmt", bodyStmts |-> bodyStmts, catchStmts |-> catchStmts,
     sourceSpan |-> sourceSpan, leadingComments |-> leadingComments]
ThrowStmt(error, sourceSpan, leadingComments) ==
    [k |-> "ThrowStmt", error |-> error,
     sourceSpan |-> sourceSpan, leadingComments |-> leadingComments]

ReadVarExpr(name, sourceSpan) ==
    [k |-> "ReadVarExpr", name |-> name, sourceSpan |-> sourceSpan]
WriteVarExpr(name, value, sourceSpan) ==
    [k |-> "WriteVarExpr", name |-> name, value |-> value, sourceSpan |-> sourceSpan]
WriteKeyExpr(receiver, index, value, sourceSpan) ==
    [k |-> "WriteKeyExpr", receiver |-> receiver, index |-> index, value |-> value,
     sourceSpan |-> sourceSpan]
WritePropExpr(receiver, name, value, sourceSpan) ==
    [k |-> "WritePropExpr", receiver |-> receiver, name |-> name, value |-> value,
     sourceSpan |-> sourceSpan]
\* name: the method's name, or NoName to call the receiver itself
InvokeMethodExpr(receiver, name, args, sourceSpan) ==
    [k |-> "InvokeMethodExpr", receiver |-> receiver, name |-> name, args |-> args,
     sourceSpan |-> sourceSpan]
InvokeFunctionExpr(fn, args, pure, sourceSpan) ==
    [k |-> "InvokeFunctionExpr", fn |-> fn, args |-> args, pure |-> pure,
     sourceSpan |-> sourceSpan]
InstantiateExpr(classExpr, args, sourceSpan) ==
    [k |-> "InstantiateExpr", classExpr |-> classExpr, args |-> args, sourceSpan |-> sourceSpan]
\* value: LiteralValue("undefined", ""), LiteralValue("null", ""), or a primitive's text
LiteralValue(type, text) == [type |-> type, text |-> text]
LiteralExpr(value, sourceSpan) ==
    [k |-> "LiteralExpr", value |-> value, sourceSpan |-> sourceSpan]
\* messageParts[i] = [metaBlock, text, sourceSpan]; placeholderSpans[i]: of expressions[i]
LocalizedString(messageParts, expressions, placeholderSpans, sourceSpan) ==
    [k |-> "LocalizedString", messageParts |-> messageParts, expressions |-> expressions,
     placeholderSpans |-> placeholderSpans, sourceSpan |-> sourceSpan]
MessagePart(metaBlock, text, sourceSpan) ==
    [metaBlock |-> metaBlock, text |-> text, sourceSpan |-> sourceSpan]
\* value.moduleName and value.name: a string or NoName
ExternalExpr(moduleName, name, sourceSpan) ==
    [k |-> "ExternalExpr", moduleName |-> moduleName, name |-> name, sourceSpan |-> sourceSpan]
ConditionalExpr(condition, trueCase, falseCase, sourceSpan) ==
    [k |-> "ConditionalExpr", condition |-> condition, trueCase |-> trueCase,
     falseCase |-> falseCase, sourceSpan |-> sourceSpan]
NotExpr(condition, sourceSpan) ==
    [k |-> "NotExpr", condition |-> condition, sourceSpan |-> sourceSpan]
AssertNotNull(condition, sourceSpan) ==
    [k |-> "AssertNotNull", condition |-> condition, sourceSpan |-> sourceSpan]
CastExpr(value, sourceSpan) ==
    [k |-> "CastExpr", value |-> value, sourceSpan |-> sourceSpan]
FunctionExpr(name, params, statements, sourceSpan) ==
    [k |-> "FunctionExpr", name |-> name, params |-> params, statements |-> statements,
     sourceSpan |-> sourceSpan]
UnaryOperatorExpr(operator, expr, sourceSpan) ==
    [k |-> "UnaryOperatorExpr", operator |-> operator, expr |-> expr, sourceSpan |-> sourceSpan]
BinaryOperatorExpr(operator, lhs, rhs, sourceSpan) ==
    [k |-> "BinaryOperatorExpr", operator |-> operator, lhs |-> lhs, rhs |-> rhs,
     sourceSpan |-> sourceSpan]
ReadPropExpr(receiver, name, sourceSpan) ==
    [k |-> "ReadPropExpr", receiver |-> receiver, name |-> name, sourceSpan |-> sourceSpan]
ReadKeyExpr(receiver, index, sourceSpan) ==
    [k |-> "ReadKeyExpr", receiver |-> receiver, index |-> index, sourceSpan |-> sourceSpan]
LiteralArrayExpr(entries, sourceSpan) ==
    [k |-> "LiteralArrayExpr", entries |-> entries, sourceSpan |-> sourceSpan]
\* entries[i] = [key, quoted, value]
LiteralMapExpr(entries, sourceSpan) ==
    [k |-> "LiteralMapExpr", entries |-> entries, sourceSpan |-> sourceSpan]
LiteralMapEntry(key, quoted, value) == [key |-> key, quoted |-> quoted, value |-> value]
CommaExpr(parts, sourceSpan) ==
    [k |-> "CommaExpr", parts |-> parts, sourceSpan |-> sourceSpan]
\* node: an already built TypeScript node
WrappedNodeExpr(node, sourceSpan) ==
    [k |-> "WrappedNodeExpr", node |-> node, sourceSpan |-> sourceSpan]
TypeofExpr(expr, sourceSpan) ==
    [k |-> "TypeofExpr", expr |-> expr, sourceSpan |-> sourceSpan]

\* --------------------------------------------------------------------- state
VARIABLES
    pc,                   \* "idle", "running", "returned" or "thrown": where the call is
    input,                \* the call: [entry, ast] or [entry, statement, leadingComments]
    scriptTarget,         \* ExpressionTranslatorVisitor.scriptTarget
    imports,              \* the ImportManager handed to the call: what it answers
    importCalls,          \* the generateNamedImport calls this run has made, in order
    usedIdentifiers,      \* the nodes this run has handed to recordUsedIdentifier
    externalSourceFiles,  \* ExpressionTranslatorVisitor.externalSourceFiles: url -> source
    ranges,               \* the source-map range set on each TypeScript node: id -> range
    pending,              \* the collaborator and source-map calls the visit has yet to make
    processed,            \* those it has made, in order
    visits,               \* [path, isStatement]: each AST node visited, with its context
    result                \* the node the call returned, Null until then

vars == <<pc, input, scriptTarget, imports, importCalls, usedIdentifiers,
          externalSourceFiles, ranges, pending, processed, visits, result>>

\* ------------------------------------------------------- TypeScript nodes
Id(path, role) == [path |-> path, role |-> role]
TsNode(kind, id, text, children) ==
    [kind |-> kind, id |-> id, text |-> text, rawText |-> "", children |-> children,
     comments |-> <<>>]
\* a template literal piece: text is the cooked text
TsTemplatePiece(kind, id, cooked, raw) ==
    [kind |-> kind, id |-> id, text |-> cooked, rawText |-> raw, children |-> <<>>,
     comments |-> <<>>]
\* ts.addSyntheticLeadingComment
addSyntheticLeadingComment(node, kind, text, hasTrailingNewLine) ==
    [node EXCEPT !.comments =
        Append(@, [kind |-> kind, text |-> text, hasTrailingNewLine |-> hasTrailingNewLine])]

UNARY_OPERATORS == [Minus |-> "MinusToken", Plus |-> "PlusToken"]

BINARY_OPERATORS ==
    [And |-> "AmpersandAmpersandToken", Bigger |-> "GreaterThanToken",
     BiggerEquals |-> "GreaterThanEqualsToken", BitwiseAnd |-> "AmpersandToken",
     Divide |-> "SlashToken", Equals |-> "EqualsEqualsToken",
     Identical |-> "EqualsEqualsEqualsToken", Lower |-> "LessThanToken",
     LowerEquals |-> "LessThanEqualsToken", Minus |-> "MinusToken",
     Modulo |-> "PercentToken", Multiply |-> "AsteriskToken",
     NotEquals |-> "ExclamationEqualsToken", NotIdentical |-> "ExclamationEqualsEqualsToken",
     Or |-> "BarBarToken", Plus |-> "PlusToken"]

\* ------------------------------------------------------------ collaborators
\* ImportManager.generateNamedImport: {moduleImport, symbol}; moduleImport is Null
\* for an ambient symbol
generateNamedImport(moduleName, name) ==
    [moduleImport |-> imports.moduleImport,
     symbol |-> IF imports.renames THEN "r_" \o name ELSE name]

\* LocalizedString.serializeI18nHead / serializeI18nTemplatePart: {cooked, raw}
serializeI18nPart(part) ==
    IF part.metaBlock = ""
    THEN [cooked |-> part.text, raw |-> "raw(" \o part.text \o ")"]
    ELSE [cooked |-> ":" \o part.metaBlock \o ":" \o part.text,
          raw |-> "raw(:" \o part.metaBlock \o ":" \o part.text \o ")"]
serializeI18nHead(ast) == serializeI18nPart(ast.messageParts[1])
\* i counts from 0, as in the source
serializeI18nTemplatePart(ast, i) == serializeI18nPart(ast.messageParts[i + 1])
getMessagePartSourceSpan(ast, i) == ast.messageParts[i + 1].sourceSpan
getPlaceholderSourceSpan(ast, i) == ast.placeholderSpans[i + 1]

\* LeadingComment.toString
CommentToString(comment) == comment.text

\* -------------------------------------------------------- the visit's effects
\* the calls a visit makes on the visitor's state and on its collaborators
SetRangeCall(node, sourceSpan) ==
    [call |-> "setSourceMapRange", node |-> node, sourceSpan |-> sourceSpan]
ImportCall(moduleName, name) ==
    [call |-> "generateNamedImport", moduleName |-> moduleName, name |-> name]
UsedCall(node) == [call |-> "recordUsedIdentifier", node |-> node]

\* what a visit comes to: the node it returns (none when it throws), the calls it
\* made on the way, and the nodes it visited
Returned(node, trace, visited) ==
    [threw |-> FALSE, node |-> Some(node), trace |-> trace, visited |-> visited]
Thrown(trace, visited) ==
    [threw |-> TRUE, node |-> Null, trace |-> trace, visited |-> visited]
Item(ast, context, index) == [ast |-> ast, context |-> context, index |-> index]
\* statements.map(child => child.visitStatement(this, context)), and likewise for
\* expressions: the items of a list with the indexes first+1, first+2, ...
Items(asts, context, first) ==
    [i \in 1..Len(asts) |-> Item(asts[i], context, first + i)]

RECURSIVE Visit(_, _, _)
RECURSIVE VisitAll(_, _)

VisitAll(items, path) ==
    IF items = <<>>
    THEN [threw |-> FALSE, nodes |-> <<>>, trace |-> <<>>, visited |-> {}]
    ELSE LET h == Visit(Head(items).ast, Head(items).context, Append(path, Head(items).index))
         IN  IF h.threw
             THEN [threw |-> TRUE, nodes |-> <<>>, trace |-> h.trace, visited |-> h.visited]
             ELSE LET t == VisitAll(Tail(items), path)
                  IN  [threw |-> t.threw, nodes |-> h.node \o t.nodes,
                       trace |-> h.trace \o t.trace, visited |-> h.visited \cup t.visited]

\* ------------------------------------------------------------ attachComments
NewLine == "\n"

\* mutant: the text is never split
Split_Whole(text) == <<text>>

\* comment.text.split('\n'), the text a sequence of characters
RECURSIVE Split(_)
Split(text) ==
    IF \A i \in 1..Len(text) : text[i] # NewLine
    THEN <<text>>
    ELSE LET i == CHOOSE j \in 1..Len(text) :
                      text[j] = NewLine /\ \A h \in 1..(j - 1) : text[h] # NewLine
         IN  <<SubSeq(text, 1, i - 1)>> \o Split(SubSeq(text, i + 1, Len(text)))

\* for (const line of comment.text.split('\n')) addSyntheticLeadingComment(...)
RECURSIVE AttachLines(_, _, _, _)
AttachLines(statement, commentKind, lines, trailingNewline) ==
    IF lines = <<>> THEN statement
    ELSE AttachLines(
             addSyntheticLeadingComment(statement, commentKind, Head(lines), trailingNewline),
             commentKind, Tail(lines), trailingNewline)

AttachComment(statement, comment) ==
    LET commentKind == IF comment.multiline THEN "MultiLineCommentTrivia"
                                            ELSE "SingleLineCommentTrivia"
    IN  IF comment.multiline
        THEN addSyntheticLeadingComment(
                 statement, commentKind, CommentToString(comment), comment.trailingNewline)
        ELSE AttachLines(statement, commentKind, Split(comment.text), comment.trailingNewline)

RECURSIVE AttachEach(_, _)
AttachEach(statement, comments) ==
    IF comments = <<>> THEN statement
    ELSE AttachEach(AttachComment(statement, Head(comments)), Tail(comments))

attachComments(statement, leadingComments) ==
    IF ~leadingComments.defined THEN statement
    ELSE AttachEach(statement, leadingComments.list)

\* ---------------------------------------------------------------- statements
Parameters(params, path) ==
    [i \in 1..Len(params) |->
        TsNode("Parameter", Id(path, "param" \o ToString(i)), params[i], <<>>)]

\* mutant: ES2015 itself is taken for a target without block scoping
visitDeclareVarStmt_Es2015AsLegacy(stmt, context, path) ==
    LET varType == IF scriptTarget <= ES2015 THEN "None"
                   ELSE IF stmt.final THEN "Const" ELSE "Let"
        init == VisitAll(
                    IF stmt.value = Undefined THEN <<>>
                    ELSE <<Item(stmt.value, withExpressionMode(context), 1)>>, path)
        varDeclaration ==
            TsNode("VariableDeclaration", Id(path, "varDeclaration"), stmt.name, init.nodes)
        declarationList ==
            TsNode("VariableDeclarationList", Id(path, "declarationList"), varType,
                   <<varDeclaration>>)
        varStatement == TsNode("VariableStatement", Id(path, "main"), "", <<declarationList>>)
    IN  IF init.threw THEN Thrown(init.trace, init.visited)
        ELSE Returned(attachComments(varStatement, stmt.leadingComments),
                      init.trace, init.visited)

visitDeclareVarStmt(stmt, context, path) ==
    LET varType == IF scriptTarget < ES2015 THEN "None"
                   ELSE IF stmt.final THEN "Const" ELSE "Let"
        init == VisitAll(
                    IF stmt.value = Undefined THEN <<>>
                    ELSE <<Item(stmt.value, withExpressionMode(context), 1)>>, path)
        varDeclaration ==
            TsNode("VariableDeclaration", Id(path, "varDeclaration"), stmt.name, init.nodes)
        declarationList ==
            TsNode("VariableDeclarationList", Id(path, "declarationList"), varType,
                   <<varDeclaration>>)
        varStatement == TsNode("VariableStatement", Id(path, "main"), "", <<declarationList>>)
    IN  IF init.threw THEN Thrown(init.trace, init.visited)
        ELSE Returned(attachComments(varStatement, stmt.leadingComments),
                      init.trace, init.visited)

visitDeclareFunctionStmt(stmt, context, path) ==
    LET body == VisitAll(Items(stmt.statements, withStatementMode(context), 0), path)
        fnDeclaration ==
            TsNode("FunctionDeclaration", Id(path, "main"), stmt.name,
                   Parameters(stmt.params, path)
                       \o <<TsNode("Block", Id(path, "body"), "", body.nodes)>>)
    IN  IF body.threw THEN Thrown(body.trace, body.visited)
        ELSE Returned(attachComments(fnDeclaration, stmt.leadingComments),
                      body.trace, body.visited)

\* mutant: the expression is visited in expression mode
visitExpressionStmt_ExpressionMode(stmt, context, path) ==
    LET e == VisitAll(<<Item(stmt.expr, withExpressionMode(context), 1)>>, path)
    IN  IF e.threw THEN Thrown(e.trace, e.visited)
        ELSE Returned(
                 attachComments(TsNode("ExpressionStatement", Id(path, "main"), "", e.nodes),
                                stmt.leadingComments),
                 e.trace, e.visited)

visitExpressionStmt(stmt, context, path) ==
    LET e == VisitAll(<<Item(stmt.expr, withStatementMode(context), 1)>>, path)
    IN  IF e.threw THEN Thrown(e.trace, e.visited)
        ELSE Returned(
                 attachComments(TsNode("ExpressionStatement", Id(path, "main"), "", e.nodes),
                                stmt.leadingComments),
                 e.trace, e.visited)

\* mutant: the returned value is visited in the statement's own context
visitReturnStmt_SameContext(stmt, context, path) ==
    LET e == VisitAll(<<Item(stmt.value, context, 1)>>, path)
    IN  IF e.threw THEN Thrown(e.trace, e.visited)
        ELSE Returned(
                 attachComments(TsNode("ReturnStatement", Id(path, "main"), "", e.nodes),
                                stmt.leadingComments),
                 e.trace, e.visited)

visitReturnStmt(stmt, context, path) ==
    LET e == VisitAll(<<Item(stmt.value, withExpressionMode(context), 1)>>, path)
    IN  IF e.threw THEN Thrown(e.trace, e.visited)
        ELSE Returned(
                 attachComments(TsNode("ReturnStatement", Id(path, "main"), "", e.nodes),
                                stmt.leadingComments),
                 e.trace, e.visited)

\* mutant: a class declaration is refused below ES2015 only
visitDeclareClassStmt_LegacyOnly(stmt, context, path) ==
    IF scriptTarget < ES2015 THEN Thrown(<<>>, {})
    ELSE Returned(TsNode("ClassDeclaration", Id(path, "main"), stmt.name, <<>>), <<>>, {})

\* both branches throw: 'Unsupported mode ...' below ES2015, 'Method not implemented.'
visitDeclareClassStmt(stmt, context, path) ==
    IF scriptTarget < ES2015 THEN Thrown(<<>>, {}) ELSE Thrown(<<>>, {})

\* the blocks are built before the condition is visited
visitIfStmt(stmt, context, path) ==
    LET thenBlock == VisitAll(Items(stmt.trueCase, withStatementMode(context), 1), path)
        elseBlock == IF Len(stmt.falseCase) > 0
                     THEN VisitAll(Items(stmt.falseCase, withStatementMode(context),
                                         1 + Len(stmt.trueCase)), path)
                     ELSE VisitAll(<<>>, path)
        cond == VisitAll(<<Item(stmt.condition, context, 1)>>, path)
        ifStatement ==
            TsNode("IfStatement", Id(path, "main"), "",
                   cond.nodes \o <<TsNode("Block", Id(path, "thenBlock"), "", thenBlock.nodes)>>
                       \o (IF Len(stmt.falseCase) > 0
                           THEN <<TsNode("Block", Id(path, "elseBlock"), "", elseBlock.nodes)>>
                           ELSE <<>>))
    IN  IF thenBlock.threw THEN Thrown(thenBlock.trace, thenBlock.visited)
        ELSE IF elseBlock.threw
        THEN Thrown(thenBlock.trace \o elseBlock.trace,
                    thenBlock.visited \cup elseBlock.visited)
        ELSE IF cond.threw
        THEN Thrown(thenBlock.trace \o elseBlock.trace \o cond.trace,
                    thenBlock.visited \cup elseBlock.visited \cup cond.visited)
        ELSE Returned(attachComments(ifStatement, stmt.leadingComments),
                      thenBlock.trace \o elseBlock.trace \o cond.trace,
                      thenBlock.visited \cup elseBlock.visited \cup cond.visited)

visitTryCatchStmt(stmt, context, path) == Thrown(<<>>, {})

visitThrowStmt(stmt, context, path) ==
    LET e == VisitAll(<<Item(stmt.error, withExpressionMode(context), 1)>>, path)
    IN  IF e.threw THEN Thrown(e.trace, e.visited)
        ELSE Returned(
                 attachComments(TsNode("ThrowStatement", Id(path, "main"), "", e.nodes),
                                stmt.leadingComments),
                 e.trace, e.visited)

\* --------------------------------------------------------------- expressions
\* mutant: the identifier is returned without a source-map range
visitReadVarExpr_NoRange(ast, context, path) ==
    Returned(TsNode("Identifier", Id(path, "main"), ast.name, <<>>), <<>>, {})

visitReadVarExpr(ast, context, path) ==
    LET identifier == TsNode("Identifier", Id(path, "main"), ast.name, <<>>)
    IN  Returned(identifier, <<SetRangeCall(identifier.id, ast.sourceSpan)>>, {})

\* mutant: the assignment is parenthesized whatever the context
visitWriteVarExpr_AlwaysParen(expr, context, path) ==
    LET v == VisitAll(<<Item(expr.value, context, 1)>>, path)
        assignment ==
            TsNode("BinaryExpression", Id(path, "main"), "EqualsToken",
                   <<TsNode("Identifier", Id(path, "name"), expr.name, <<>>)>> \o v.nodes)
    IN  IF v.threw THEN Thrown(v.trace, v.visited)
        ELSE Returned(TsNode("ParenthesizedExpression", Id(path, "paren"), "", <<assignment>>),
                      v.trace, v.visited)

visitWriteVarExpr(expr, context, path) ==
    LET v == VisitAll(<<Item(expr.value, context, 1)>>, path)
        assignment ==
            TsNode("BinaryExpression", Id(path, "main"), "EqualsToken",
                   <<TsNode("Identifier", Id(path, "name"), expr.name, <<>>)>> \o v.nodes)
    IN  IF v.threw THEN Thrown(v.trace, v.visited)
        ELSE Returned(IF context.isStatement THEN assignment
                      ELSE TsNode("ParenthesizedExpression", Id(path, "paren"), "",
                                  <<assignment>>),
                      v.trace, v.visited)

\* mutant: the assignment is parenthesized whatever the context
visitWriteKeyExpr_AlwaysParen(expr, context, path) ==
    LET exprContext == withExpressionMode(context)
        v == VisitAll(<<Item(expr.receiver, exprContext, 1), Item(expr.index, exprContext, 2),
                        Item(expr.value, exprContext, 3)>>, path)
        lhs == TsNode("ElementAccessExpression", Id(path, "lhs"), "", SubSeq(v.nodes, 1, 2))
        assignment ==
            TsNode("BinaryExpression", Id(path, "main"), "EqualsToken", <<lhs, v.nodes[3]>>)
    IN  IF v.threw THEN Thrown(v.trace, v.visited)
        ELSE Returned(TsNode("ParenthesizedExpression", Id(path, "paren"), "", <<assignment>>),
                      v.trace, v.visited)

visitWriteKeyExpr(expr, context, path) ==
    LET exprContext == withExpressionMode(context)
        v == VisitAll(<<Item(expr.receiver, exprContext, 1), Item(expr.index, exprContext, 2),
                        Item(expr.value, exprContext, 3)>>, path)
        lhs == TsNode("ElementAccessExpression", Id(path, "lhs"), "", SubSeq(v.nodes, 1, 2))
        assignment ==
            TsNode("BinaryExpression", Id(path, "main"), "EqualsToken", <<lhs, v.nodes[3]>>)
    IN  IF v.threw THEN Thrown(v.trace, v.visited)
        ELSE Returned(IF context.isStatement THEN assignment
                      ELSE TsNode("ParenthesizedExpression", Id(path, "paren"), "",
                                  <<assignment>>),
                      v.trace, v.visited)

\* mutant: the assignment is parenthesized in expression mode, as a write-variable is
visitWritePropExpr_ParenByContext(expr, context, path) ==
    LET v == VisitAll(<<Item(expr.receiver, context, 1), Item(expr.value, context, 2)>>, path)
        assignment ==
            TsNode("BinaryExpression", Id(path, "main"), "EqualsToken",
                   <<TsNode("PropertyAccessExpression", Id(path, "lhs"), expr.name,
                            <<v.nodes[1]>>),
                     v.nodes[2]>>)
    IN  IF v.threw THEN Thrown(v.trace, v.visited)
        ELSE Returned(IF context.isStatement THEN assignment
                      ELSE TsNode("ParenthesizedExpression", Id(path, "paren"), "",
                                  <<assignment>>),
                      v.trace, v.visited)

visitWritePropExpr(expr, context, path) ==
    LET v == VisitAll(<<Item(expr.receiver, context, 1), Item(expr.value, context, 2)>>, path)
    IN  IF v.threw THEN Thrown(v.trace, v.visited)
        ELSE Returned(
                 TsNode("BinaryExpression", Id(path, "main"), "EqualsToken",
                        <<TsNode("PropertyAccessExpression", Id(path, "lhs"), expr.name,
                                 <<v.nodes[1]>>),
                          v.nodes[2]>>),
                 v.trace, v.visited)

visitInvokeMethodExpr(ast, context, path) ==
    LET v == VisitAll(<<Item(ast.receiver, context, 1)>> \o Items(ast.args, context, 1), path)
        target == v.nodes[1]
        callee == IF ast.name # NoName
                  THEN TsNode("PropertyAccessExpression", Id(path, "callee"), ast.name,
                              <<target>>)
                  ELSE target
        call == TsNode("CallExpression", Id(path, "main"), "", <<callee>> \o Tail(v.nodes))
    IN  IF v.threw THEN Thrown(v.trace, v.visited)
        ELSE Returned(call, v.trace \o <<SetRangeCall(call.id, ast.sourceSpan)>>, v.visited)

visitInvokeFunctionExpr(ast, context, path) ==
    LET v == VisitAll(<<Item(ast.fn, context, 1)>> \o Items(ast.args, context, 1), path)
        call == TsNode("CallExpression", Id(path, "main"), "", v.nodes)
        expr == IF ast.pure
                THEN addSyntheticLeadingComment(
                         call, "MultiLineCommentTrivia", <<"@__PURE__">>, FALSE)
                ELSE call
    IN  IF v.threw THEN Thrown(v.trace, v.visited)
        ELSE Returned(expr, v.trace \o <<SetRangeCall(expr.id, ast.sourceSpan)>>, v.visited)

visitInstantiateExpr(ast, context, path) ==
    LET v == VisitAll(<<Item(ast.classExpr, context, 1)>> \o Items(ast.args, context, 1), path)
    IN  IF v.threw THEN Thrown(v.trace, v.visited)
        ELSE Returned(TsNode("NewExpression", Id(path, "main"), "", v.nodes),
                      v.trace, v.visited)

visitLiteralExpr(ast, context, path) ==
    LET expr == IF ast.value.type = "undefined"
                THEN TsNode("Identifier", Id(path, "main"), "undefined", <<>>)
                ELSE IF ast.value.type = "null"
                THEN TsNode("NullKeyword", Id(path, "main"), "", <<>>)
                ELSE TsNode("Literal", Id(path, "main"), ast.value.text, <<>>)
    IN  Returned(expr, <<SetRangeCall(expr.id, ast.sourceSpan)>>, {})

\* mutant: the import manager is asked even when there is no module name
visitExternalExpr_AlwaysResolves(ast, context, path) ==
    IF ast.name = NoName THEN Thrown(<<>>, {})
    ELSE LET import == generateNamedImport(ast.moduleName, ast.name)
             call == <<ImportCall(ast.moduleName, ast.name)>>
         IN  IF import.moduleImport = Null
             THEN Returned(TsNode("Identifier", Id(path, "main"), import.symbol, <<>>),
                           call, {})
             ELSE Returned(
                      TsNode("PropertyAccessExpression", Id(path, "main"), "",
                             <<TsNode("Identifier", Id(path, "moduleImport"),
                                      import.moduleImport[1], <<>>),
                               TsNode("Identifier", Id(path, "symbol"), import.symbol, <<>>)>>),
                      call, {})

visitExternalExpr(ast, context, path) ==
    IF ast.name = NoName THEN Thrown(<<>>, {})
    ELSE IF ast.moduleName # NoName
    THEN LET import == generateNamedImport(ast.moduleName, ast.name)
             call == <<ImportCall(ast.moduleName, ast.name)>>
         IN  IF import.moduleImport = Null
             THEN Returned(TsNode("Identifier", Id(path, "main"), import.symbol, <<>>),
                           call, {})
             ELSE Returned(
                      TsNode("PropertyAccessExpression", Id(path, "main"), "",
                             <<TsNode("Identifier", Id(path, "moduleImport"),
                                      import.moduleImport[1], <<>>),
                               TsNode("Identifier", Id(path, "symbol"), import.symbol, <<>>)>>),
                      call, {})
    ELSE Returned(TsNode("Identifier", Id(path, "main"), ast.name, <<>>), <<>>, {})

\* mutant: a conditional used as the condition is left without parentheses
visitConditionalExpr_NoParen(ast, context, path) ==
    LET v == VisitAll(<<Item(ast.condition, context, 1), Item(ast.trueCase, context, 2),
                        Item(ast.falseCase, context, 3)>>, path)
    IN  IF v.threw THEN Thrown(v.trace, v.visited)
        ELSE Returned(TsNode("ConditionalExpression", Id(path, "main"), "", v.nodes),
                      v.trace, v.visited)

visitConditionalExpr(ast, context, path) ==
    LET v == VisitAll(<<Item(ast.condition, context, 1), Item(ast.trueCase, context, 2),
                        Item(ast.falseCase, context, 3)>>, path)
        cond == IF ast.condition.k = "ConditionalExpr"
                THEN TsNode("ParenthesizedExpression", Id(path, "cond"), "", <<v.nodes[1]>>)
                ELSE v.nodes[1]
    IN  IF v.threw THEN Thrown(v.trace, v.visited)
        ELSE Returned(TsNode("ConditionalExpression", Id(path, "main"), "",
                             <<cond, v.nodes[2], v.nodes[3]>>),
                      v.trace, v.visited)

visitNotExpr(ast, context, path) ==
    LET v == VisitAll(<<Item(ast.condition, context, 1)>>, path)
    IN  IF v.threw THEN Thrown(v.trace, v.visited)
        ELSE Returned(
                 TsNode("PrefixUnaryExpression", Id(path, "main"), "ExclamationToken", v.nodes),
                 v.trace, v.visited)

\* the node of the inner expression itself
visitAssertNotNullExpr(ast, context, path) == Visit(ast.condition, context, Append(path, 1))

visitCastExpr(ast, context, path) == Visit(ast.value, context, Append(path, 1))

visitFunctionExpr(ast, context, path) ==
    LET body == VisitAll(Items(ast.statements, context, 0), path)
    IN  IF body.threw THEN Thrown(body.trace, body.visited)
        ELSE Returned(
                 TsNode("FunctionExpression", Id(path, "main"),
                        IF ast.name = NoName THEN "" ELSE ast.name,
                        Parameters(ast.params, path)
                            \o <<TsNode("Block", Id(path, "body"), "", body.nodes)>>),
                 body.trace, body.visited)

visitUnaryOperatorExpr(ast, context, path) ==
    IF ast.operator \notin DOMAIN UNARY_OPERATORS THEN Thrown(<<>>, {})
    ELSE LET v == VisitAll(<<Item(ast.expr, context, 1)>>, path)
         IN  IF v.threw THEN Thrown(v.trace, v.visited)
             ELSE Returned(TsNode("PrefixUnaryExpression", Id(path, "main"),
                                  UNARY_OPERATORS[ast.operator], v.nodes),
                           v.trace, v.visited)

visitBinaryOperatorExpr(ast, context, path) ==
    IF ast.operator \notin DOMAIN BINARY_OPERATORS THEN Thrown(<<>>, {})
    ELSE LET v == VisitAll(<<Item(ast.lhs, context, 1), Item(ast.rhs, context, 2)>>, path)
         IN  IF v.threw THEN Thrown(v.trace, v.visited)
             ELSE Returned(TsNode("BinaryExpression", Id(path, "main"),
                                  BINARY_OPERATORS[ast.operator], v.nodes),
                           v.trace, v.visited)

visitReadPropExpr(ast, context, path) ==
    LET v == VisitAll(<<Item(ast.receiver, context, 1)>>, path)
    IN  IF v.threw THEN Thrown(v.trace, v.visited)
        ELSE Returned(TsNode("PropertyAccessExpression", Id(path, "main"), ast.name, v.nodes),
                      v.trace, v.visited)

visitReadKeyExpr(ast, context, path) ==
    LET v == VisitAll(<<Item(ast.receiver, context, 1), Item(ast.index, context, 2)>>, path)
    IN  IF v.threw THEN Thrown(v.trace, v.visited)
        ELSE Returned(TsNode("ElementAccessExpression", Id(path, "main"), "", v.nodes),
                      v.trace, v.visited)

visitLiteralArrayExpr(ast, context, path) ==
    LET v == VisitAll(Items(ast.entries, context, 0), path)
        expr == TsNode("ArrayLiteralExpression", Id(path, "main"), "", v.nodes)
    IN  IF v.threw THEN Thrown(v.trace, v.visited)
        ELSE Returned(expr, v.trace \o <<SetRangeCall(expr.id, ast.sourceSpan)>>, v.visited)

visitLiteralMapExpr(ast, context, path) ==
    LET v == VisitAll([i \in 1..Len(ast.entries) |-> Item(ast.entries[i].value, context, i)],
                      path)
        entries ==
            [i \in 1..Len(ast.entries) |->
                TsNode("PropertyAssignment", Id(path, "entry" \o ToString(i)), "",
                       <<TsNode(IF ast.entries[i].quoted THEN "StringLiteral" ELSE "Identifier",
                                Id(path, "key" \o ToString(i)), ast.entries[i].key, <<>>),
                         v.nodes[i]>>)]
        expr == TsNode("ObjectLiteralExpression", Id(path, "main"), "", entries)
    IN  IF v.threw THEN Thrown(v.trace, v.visited)
        ELSE Returned(expr, v.trace \o <<SetRangeCall(expr.id, ast.sourceSpan)>>, v.visited)

visitCommaExpr(ast, context, path) == Thrown(<<>>, {})

visitWrappedNodeExpr(ast, context, path) ==
    Returned(ast.node,
             IF ast.node.kind = "Identifier" THEN <<UsedCall(ast.node.id)>> ELSE <<>>, {})

visitTypeofExpr(ast, context, path) ==
    LET v == VisitAll(<<Item(ast.expr, context, 1)>>, path)
    IN  IF v.threw THEN Thrown(v.trace, v.visited)
        ELSE Returned(TsNode("TypeOfExpression", Id(path, "main"), "", v.nodes),
                      v.trace, v.visited)

\* --------------------------------------------------------- localized strings
createTemplateMiddle(id, cooked, raw) == TsTemplatePiece("TemplateMiddle", id, cooked, raw)

\* mutant: the tail piece takes its raw text from the cooked text
createTemplateTail_RawFromCooked(id, cooked, raw) ==
    TsTemplatePiece("TemplateTail", id, cooked, cooked)

createTemplateTail(id, cooked, raw) == TsTemplatePiece("TemplateTail", id, cooked, raw)

\* the spans of the message parts i .. length-1 (i counts from 0, as in the source):
\* the loop over the middle parts, then the tail part
RECURSIVE TemplateSpans(_, _, _, _)
TemplateSpans(ast, context, path, i) ==
    LET length == Len(ast.messageParts)
    IN  IF i > length - 1
        THEN [threw |-> FALSE, nodes |-> <<>>, trace |-> <<>>, visited |-> {}]
        ELSE
        LET e == Visit(ast.expressions[i], context, Append(path, i))
        IN  IF e.threw
            THEN [threw |-> TRUE, nodes |-> <<>>, trace |-> e.trace, visited |-> e.visited]
            ELSE
            LET resolvedExpression == e.node[1]
                templatePart == serializeI18nTemplatePart(ast, i)
                pieceId == Id(path, "part" \o ToString(i))
                piece == IF i < length - 1
                         THEN createTemplateMiddle(pieceId, templatePart.cooked, templatePart.raw)
                         ELSE createTemplateTail(pieceId, templatePart.cooked, templatePart.raw)
                templateSpan == TsNode("TemplateSpan", Id(path, "span" \o ToString(i)), "",
                                       <<resolvedExpression, piece>>)
                rest == TemplateSpans(ast, context, path, i + 1)
            IN  [threw |-> rest.threw, nodes |-> <<templateSpan>> \o rest.nodes,
                 trace |-> e.trace
                     \o <<SetRangeCall(resolvedExpression.id, getPlaceholderSourceSpan(ast, i - 1)),
                          SetRangeCall(piece.id, getMessagePartSourceSpan(ast, i))>>
                     \o rest.trace,
                 visited |-> e.visited \cup rest.visited]

createLocalizedStringTaggedTemplate(ast, context, path) ==
    LET length == Len(ast.messageParts)
        metaBlock == serializeI18nHead(ast)
        tag == TsNode("Identifier", Id(path, "tag"), "$localize", <<>>)
    IN  IF length = 1
        THEN LET template == TsTemplatePiece("NoSubstitutionTemplateLiteral",
                                             Id(path, "part0"), metaBlock.cooked, metaBlock.raw)
                 expression == TsNode("TaggedTemplateExpression", Id(path, "main"), "",
                                      <<tag, template>>)
             IN  Returned(expression,
                          <<SetRangeCall(template.id, getMessagePartSourceSpan(ast, 0)),
                            SetRangeCall(expression.id, ast.sourceSpan)>>, {})
        ELSE LET head == TsTemplatePiece("TemplateHead", Id(path, "part0"),
                                         metaBlock.cooked, metaBlock.raw)
                 spans == TemplateSpans(ast, context, path, 1)
                 template == TsNode("TemplateExpression", Id(path, "template"), "",
                                    <<head>> \o spans.nodes)
                 expression == TsNode("TaggedTemplateExpression", Id(path, "main"), "",
                                      <<tag, template>>)
                 headRange == <<SetRangeCall(head.id, getMessagePartSourceSpan(ast, 0))>>
             IN  IF spans.threw THEN Thrown(headRange \o spans.trace, spans.visited)
                 ELSE Returned(expression,
                               headRange \o spans.trace
                                   \o <<SetRangeCall(expression.id, ast.sourceSpan)>>,
                               spans.visited)

\* createLiteral(text, span) for each message part: the literals and their range calls
Literals(ast, path, role, texts) ==
    [nodes |-> [i \in 1..Len(texts) |->
                   TsNode("StringLiteral", Id(path, role \o ToString(i - 1)), texts[i], <<>>)],
     trace |-> [i \in 1..Len(texts) |->
                   SetRangeCall(Id(path, role \o ToString(i - 1)),
                                getMessagePartSourceSpan(ast, i - 1))]]

createLocalizedStringFunctionCall(ast, context, path) ==
    LET n == Len(ast.messageParts)
        messageParts == [i \in 1..n |-> IF i = 1 THEN serializeI18nHead(ast)
                                        ELSE serializeI18nTemplatePart(ast, i - 1)]
        expressions == VisitAll(Items(SubSeq(ast.expressions, 1, n - 1), context, 0), path)
        import == generateNamedImport("tslib", "__makeTemplateObject")
        helper == IF import.moduleImport = Null
                  THEN TsNode("Identifier", Id(path, "helper"), import.symbol, <<>>)
                  ELSE TsNode("PropertyAccessExpression", Id(path, "helper"), "",
                              <<TsNode("Identifier", Id(path, "moduleImport"),
                                       import.moduleImport[1], <<>>),
                                TsNode("Identifier", Id(path, "symbol"), import.symbol, <<>>)>>)
        cookedLiterals == Literals(ast, path, "cooked", [i \in 1..n |-> messageParts[i].cooked])
        rawLiterals == Literals(ast, path, "raw", [i \in 1..n |-> messageParts[i].raw])
        templateObject ==
            TsNode("CallExpression", Id(path, "templateObject"), "",
                   <<helper,
                     TsNode("ArrayLiteralExpression", Id(path, "cookedArray"), "",
                            cookedLiterals.nodes),
                     TsNode("ArrayLiteralExpression", Id(path, "rawArray"), "",
                            rawLiterals.nodes)>>)
    IN  IF expressions.threw THEN Thrown(expressions.trace, expressions.visited)
        ELSE Returned(
                 TsNode("CallExpression", Id(path, "main"), "",
                        <<TsNode("Identifier", Id(path, "tag"), "$localize", <<>>),
                          templateObject>> \o expressions.nodes),
                 expressions.trace \o <<ImportCall("tslib", "__makeTemplateObject")>>
                     \o cookedLiterals.trace \o rawLiterals.trace,
                 expressions.visited)

visitLocalizedString(ast, context, path) ==
    LET localizedString == IF scriptTarget >= ES2015
                           THEN createLocalizedStringTaggedTemplate(ast, context, path)
                           ELSE createLocalizedStringFunctionCall(ast, context, path)
    IN  IF localizedString.threw THEN localizedString
        ELSE [localizedString EXCEPT
                 !.trace = Append(@, SetRangeCall(localizedString.node[1].id, ast.sourceSpan))]

\* ------------------------------------------------------------------ dispatch
\* statement.visitStatement(visitor, context) / expression.visitExpression(visitor, context)
Dispatch(ast, context, path) ==
    CASE ast.k = "DeclareVarStmt" -> visitDeclareVarStmt(ast, context, path)
      [] ast.k = "DeclareFunctionStmt" -> visitDeclareFunctionStmt(ast, context, path)
      [] ast.k = "ExpressionStatement" -> visitExpressionStmt(ast, context, path)
      [] ast.k = "ReturnStatement" -> visitReturnStmt(ast, context, path)
      [] ast.k = "ClassStmt" -> visitDeclareClassStmt(ast, context, path)
      [] ast.k = "IfStmt" -> visitIfStmt(ast, context, path)
      [] ast.k = "TryCatchStmt" -> visitTryCatchStmt(ast, context, path)
      [] ast.k = "ThrowStmt" -> visitThrowStmt(ast, context, path)
      [] ast.k = "ReadVarExpr" -> visitReadVarExpr(ast, context, path)
      [] ast.k = "WriteVarExpr" -> visitWriteVarExpr(ast, context, path)
      [] ast.k = "WriteKeyExpr" -> visitWriteKeyExpr(ast, context, path)
      [] ast.k = "WritePropExpr" -> visitWritePropExpr(ast, context, path)
      [] ast.k = "InvokeMethodExpr" -> visitInvokeMethodExpr(ast, context, path)
      [] ast.k = "InvokeFunctionExpr" -> visitInvokeFunctionExpr(ast, context, path)
      [] ast.k = "InstantiateExpr" -> visitInstantiateExpr(ast, context, path)
      [] ast.k = "LiteralExpr" -> visitLiteralExpr(ast, context, path)
      [] ast.k = "LocalizedString" -> visitLocalizedString(ast, context, path)
      [] ast.k = "ExternalExpr" -> visitExternalExpr(ast, context, path)
      [] ast.k = "ConditionalExpr" -> visitConditionalExpr(ast, context, path)
      [] ast.k = "NotExpr" -> visitNotExpr(ast, context, path)
      [] ast.k = "AssertNotNull" -> visitAssertNotNullExpr(ast, context, path)
      [] ast.k = "CastExpr" -> visitCastExpr(ast, context, path)
      [] ast.k = "FunctionExpr" -> visitFunctionExpr(ast, context, path)
      [] ast.k = "UnaryOperatorExpr" -> visitUnaryOperatorExpr(ast, context, path)
      [] ast.k = "BinaryOperatorExpr" -> visitBinaryOperatorExpr(ast, context, path)
      [] ast.k = "ReadPropExpr" -> visitReadPropExpr(ast, context, path)
      [] ast.k = "ReadKeyExpr" -> visitReadKeyExpr(ast, context, path)
      [] ast.k = "LiteralArrayExpr" -> visitLiteralArrayExpr(ast, context, path)
      [] ast.k = "LiteralMapExpr" -> visitLiteralMapExpr(ast, context, path)
      [] ast.k = "CommaExpr" -> visitCommaExpr(ast, context, path)
      [] ast.k = "WrappedNodeExpr" -> visitWrappedNodeExpr(ast, context, path)
      [] ast.k = "TypeofExpr" -> visitTypeofExpr(ast, context, path)

\* one visit: the handler's outcome, and the record of the node visited and its context
Visit(ast, context, path) ==
    LET r == Dispatch(ast, context, path)
    IN  [r EXCEPT !.visited = @ \cup {[path |-> path, isStatement |-> context.isStatement]}]

\* ------------------------------------------------------- source-map ranges
\* ts.createSourceMapSource(url, content, pos => pos): a new object at each call;
\* `created` tells two sources of one url apart (the ordinal of the allocating call)
createSourceMapSource(url, created) == [url |-> url, created |-> created]

\* mutant: a source is created at every call, whether the cache has the url or not
setSourceMapRange_AlwaysCreates(files, sourceSpan, ordinal) ==
    IF sourceSpan # Null /\ sourceSpan[1].url # ""
    THEN LET url == sourceSpan[1].url
             after == (url :> createSourceMapSource(url, ordinal)) @@ files
         IN  [files |-> after,
              range |-> Some([pos |-> sourceSpan[1].start, end |-> sourceSpan[1].end,
                              source |-> after[url]])]
    ELSE [files |-> files, range |-> Null]

\* setSourceMapRange(expr, sourceSpan) on the cache `files`, as the call number `ordinal`
\* of the run: the cache afterwards and the range set on expr (none: Null)
setSourceMapRange(files, sourceSpan, ordinal) ==
    IF sourceSpan # Null /\ sourceSpan[1].url # ""
    THEN LET url == sourceSpan[1].url
             after == IF url \notin DOMAIN files
                      THEN (url :> createSourceMapSource(url, ordinal)) @@ files
                      ELSE files
         IN  [files |-> after,
              range |-> Some([pos |-> sourceSpan[1].start, end |-> sourceSpan[1].end,
                              source |-> after[url]])]
    ELSE [files |-> files, range |-> Null]

\* ------------------------------------------------------------------- inputs
SpanA == Some(ParseSourceSpan("a.ts", 1, 5))
SpanA2 == Some(ParseSourceSpan("a.ts", 6, 9))
SpanB == Some(ParseSourceSpan("b.ts", 2, 7))
SpanNoUrl == Some(ParseSourceSpan("", 3, 4))

Filler == ReadVarExpr("f", SpanA2)

\* the chains: an expression or a statement nested in the positions that decide the
\* context of a visit and the parentheses of its output
ChainExprLeaves ==
    {ReadVarExpr("x", SpanA), CommaExpr(<<>>, Null),
     WriteVarExpr("w", Filler, Null), ConditionalExpr(Filler, Filler, Filler, SpanB),
     WriteKeyExpr(Filler, Filler, Filler, Null), WritePropExpr(Filler, "q", Filler, Null)}
ChainStmtLeaves == {ClassStmt("C", Null, NoComments)}

ExprInExpr(e) ==
    {WriteVarExpr("v", e, SpanB),
     BinaryOperatorExpr("Plus", e, Filler, SpanB),
     ConditionalExpr(e, Filler, Filler, Null),
     ConditionalExpr(Filler, e, Filler, Null),
     WriteKeyExpr(Filler, Filler, e, Null),
     WritePropExpr(Filler, "p", e, Null),
     CastExpr(e, Null)}
ExprInStmt(e) ==
    {ExpressionStatement(e, Null, NoComments),
     ReturnStatement(e, Null, NoComments),
     IfStmt(e, <<>>, <<>>, Null, NoComments)}
StmtInStmt(s) ==
    {IfStmt(Filler, <<s>>, <<>>, Null, NoComments),
     DeclareFunctionStmt("fn", <<"a">>, <<s>>, Null, NoComments)}
StmtInExpr(s) == {FunctionExpr(NoName, <<"a">>, <<s>>, SpanB)}

RECURSIVE ExprChains(_)
RECURSIVE StmtChains(_)
ExprChains(depth) ==
    IF depth = 0 THEN ChainExprLeaves
    ELSE LET E == ExprChains(depth - 1)
             S == StmtChains(depth - 1)
         IN  E \cup UNION {ExprInExpr(e) : e \in E} \cup UNION {StmtInExpr(s) : s \in S}
StmtChains(depth) ==
    IF depth = 0 THEN ChainStmtLeaves
    ELSE LET E == ExprChains(depth - 1)
             S == StmtChains(depth - 1)
         IN  S \cup UNION {ExprInStmt(e) : e \in E} \cup UNION {StmtInStmt(s) : s \in S}

\* every position of every statement and expression, around every leaf
WrappedIdentifier == TsNode("Identifier", Id(<<>>, "wrapped"), "w", <<>>)
WrappedCall == TsNode("CallExpression", Id(<<>>, "wrapped"), "", <<>>)

SampleComments ==
    LeadingComments(<<LeadingComment(<<"a", NewLine, "b">>, FALSE, TRUE),
                      LeadingComment(<<"c", NewLine, "d">>, TRUE, FALSE)>>)

SimpleLocalizedString ==
    LocalizedString(<<MessagePart("desc", "t0", SpanA), MessagePart("", "t1", Null)>>,
                    <<ReadVarExpr("x", SpanA)>>, <<SpanB>>, SpanA2)

FlatExprLeaves ==
    {ReadVarExpr("x", SpanA), ReadVarExpr("y", Null), ReadVarExpr("z", SpanNoUrl),
     LiteralExpr(LiteralValue("undefined", ""), SpanB),
     LiteralExpr(LiteralValue("null", ""), Null),
     LiteralExpr(LiteralValue("string", "null"), SpanA),
     CommaExpr(<<>>, Null), WrappedNodeExpr(WrappedIdentifier, Null),
     WrappedNodeExpr(WrappedCall, SpanA), SimpleLocalizedString}
        \cup {ExternalExpr(m, n, Null) : m \in {NoName, "m"}, n \in {NoName, "s"}}
FlatStmtLeaves ==
    {ClassStmt("C", SpanA, NoComments), TryCatchStmt(<<>>, <<>>, Null, NoComments),
     DeclareVarStmt("d", Undefined, TRUE, Null, SampleComments),
     DeclareVarStmt("d", Undefined, FALSE, SpanB, NoComments)}

FlatExprInExpr(e, span) ==
    {WriteVarExpr("v", e, span),
     WriteKeyExpr(e, Filler, Filler, span), WriteKeyExpr(Filler, e, Filler, span),
     WriteKeyExpr(Filler, Filler, e, span),
     WritePropExpr(e, "p", Filler, span), WritePropExpr(Filler, "p", e, span),
     InvokeMethodExpr(e, "m", <<Filler>>, span), InvokeMethodExpr(e, NoName, <<>>, span),
     InvokeMethodExpr(Filler, "m", <<Filler, e>>, span),
     InvokeFunctionExpr(e, <<Filler>>, FALSE, span),
     InvokeFunctionExpr(Filler, <<e>>, TRUE, span),
     InstantiateExpr(e, <<Filler>>, span), InstantiateExpr(Filler, <<e, Filler>>, span),
     ConditionalExpr(e, Filler, Filler, span), ConditionalExpr(Filler, e, Filler, span),
     ConditionalExpr(Filler, Filler, e, span),
     NotExpr(e, span), AssertNotNull(e, span), CastExpr(e, span),
     UnaryOperatorExpr("Minus", e, span), UnaryOperatorExpr("Plus", e, span),
     UnaryOperatorExpr("Unknown", e, span),
     BinaryOperatorExpr("And", e, Filler, span), BinaryOperatorExpr("Identical", Filler, e, span),
     BinaryOperatorExpr("Unknown", e, Filler, span),
     ReadPropExpr(e, "p", span), ReadKeyExpr(e, Filler, span), ReadKeyExpr(Filler, e, span),
     LiteralArrayExpr(<<Filler, e>>, span),
     LiteralMapExpr(<<LiteralMapEntry("a", TRUE, e), LiteralMapEntry("b", FALSE, Filler)>>, span),
     TypeofExpr(e, span)}
FlatExprInStmt(e, span) ==
    {DeclareVarStmt("d", e, TRUE, span, NoComments),
     DeclareVarStmt("d", e, FALSE, span, SampleComments),
     ExpressionStatement(e, span, SampleComments),
     ReturnStatement(e, span, NoComments),
     IfStmt(e, <<>>, <<>>, span, NoComments),
     ThrowStmt(e, span, LeadingComments(<<>>))}
FlatStmtInStmt(s, span) ==
    {DeclareFunctionStmt("fn", <<"a", "b">>, <<s>>, span, SampleComments),
     IfStmt(Filler, <<s>>, <<>>, span, NoComments),
     IfStmt(Filler, <<>>, <<s>>, span, NoComments)}
FlatStmtInExpr(s, span) == {FunctionExpr("fn", <<"a">>, <<s>>, span)}

FlatExprs ==
    FlatExprLeaves
        \cup UNION {FlatExprInExpr(e, span) : e \in FlatExprLeaves, span \in {Null, SpanB}}
        \cup UNION {FlatStmtInExpr(s, span) : s \in FlatStmtLeaves, span \in {Null, SpanB}}
FlatStmts ==
    FlatStmtLeaves
        \cup UNION {FlatExprInStmt(e, span) : e \in FlatExprLeaves, span \in {Null, SpanB}}
        \cup UNION {FlatStmtInStmt(s, span) : s \in FlatStmtLeaves, span \in {Null, SpanB}}

\* the localized strings of 0..MaxExprs expressions
LocalizedExprs ==
    {ReadVarExpr("x", SpanA), ReadVarExpr("y", Null), WriteVarExpr("v", Filler, Null),
     CastExpr(ReadVarExpr("x", SpanA), Null), CommaExpr(<<>>, Null)}
LocalizedParts(count, meta) ==
    [i \in 1..count |->
        MessagePart(IF ~meta THEN "" ELSE IF i = 1 THEN "desc" ELSE "ph" \o ToString(i - 1),
                    "t" \o ToString(i - 1),
                    IF meta THEN SpanA ELSE Null)]
LocalizedStrings ==
    UNION {{LocalizedString(LocalizedParts(count + 1, meta), expressions,
                            [i \in 1..count |-> placeholderSpan],
                            IF meta THEN SpanA2 ELSE Null) :
               expressions \in [1..count -> LocalizedExprs]} :
           count \in 0..MaxExprs, meta \in BOOLEAN, placeholderSpan \in {Null, SpanB}}

\* the leading comments: the texts of up to MaxCommentLen characters
CommentChars == {"a", NewLine}
CommentTexts == UNION {[1..n -> CommentChars] : n \in 0..MaxCommentLen}
Comments == {LeadingComment(text, multiline, trailingNewline) :
                text \in CommentTexts, multiline \in BOOLEAN, trailingNewline \in BOOLEAN}
CommentLists == {<<>>} \cup {<<c>> : c \in Comments} \cup {<<c, d>> : c \in Comments, d \in Comments}
BareStatement == TsNode("EmptyStatement", Id(<<>>, "main"), "", <<>>)

ImportManagers == [moduleImport : {Null, Some("i0")}, renames : BOOLEAN]
DefaultImports == [moduleImport |-> Some("i0"), renames |-> FALSE]

ExpressionCall(ast) == [entry |-> "translateExpression", ast |-> ast]
StatementCall(ast) == [entry |-> "translateStatement", ast |-> ast]
CommentsCall(statement, leadingComments) ==
    [entry |-> "attachComments", statement |-> statement, leadingComments |-> leadingComments]

ChainCalls ==
    {ExpressionCall(e) : e \in ExprChains(MaxDepth)}
        \cup {StatementCall(s) : s \in StmtChains(MaxDepth)}
FlatCalls ==
    {ExpressionCall(e) : e \in FlatExprs} \cup {StatementCall(s) : s \in FlatStmts}
LocalizedCalls ==
    {ExpressionCall(e) : e \in LocalizedStrings}
        \cup {StatementCall(ExpressionStatement(e, Null, NoComments)) : e \in LocalizedStrings}
        \cup {StatementCall(ReturnStatement(e, Null, NoComments)) : e \in LocalizedStrings}
CommentCalls ==
    {CommentsCall(BareStatement, NoComments)}
        \cup {CommentsCall(BareStatement, LeadingComments(list)) : list \in CommentLists}

\* -------------------------------------------------------------------- Init
NoFiles == [url \in {} |-> Null]
NoRanges == [id \in {} |-> Null]

RECURSIVE UsesImports(_)
Children(ast) ==
    CASE ast.k = "DeclareVarStmt" -> IF ast.value = Undefined THEN <<>> ELSE <<ast.value>>
      [] ast.k = "DeclareFunctionStmt" -> ast.statements
      [] ast.k = "ExpressionStatement" -> <<ast.expr>>
      [] ast.k = "ReturnStatement" -> <<ast.value>>
      [] ast.k = "IfStmt" -> <<ast.condition>> \o ast.trueCase \o ast.falseCase
      [] ast.k = "ThrowStmt" -> <<ast.error>>
      [] ast.k = "WriteVarExpr" -> <<ast.value>>
      [] ast.k = "WriteKeyExpr" -> <<ast.receiver, ast.index, ast.value>>
      [] ast.k = "WritePropExpr" -> <<ast.receiver, ast.value>>
      [] ast.k = "InvokeMethodExpr" -> <<ast.receiver>> \o ast.args
      [] ast.k = "InvokeFunctionExpr" -> <<ast.fn>> \o ast.args
      [] ast.k = "InstantiateExpr" -> <<ast.classExpr>> \o ast.args
      [] ast.k = "LocalizedString" -> ast.expressions
      [] ast.k = "ConditionalExpr" -> <<ast.condition, ast.trueCase, ast.falseCase>>
      [] ast.k \in {"NotExpr", "AssertNotNull"} -> <<ast.condition>>
      [] ast.k = "CastExpr" -> <<ast.value>>
      [] ast.k = "FunctionExpr" -> ast.statements
      [] ast.k \in {"UnaryOperatorExpr", "TypeofExpr"} -> <<ast.expr>>
      [] ast.k = "BinaryOperatorExpr" -> <<ast.lhs, ast.rhs>>
      [] ast.k = "ReadPropExpr" -> <<ast.receiver>>
      [] ast.k = "ReadKeyExpr" -> <<ast.receiver, ast.index>>
      [] ast.k = "LiteralArrayExpr" -> ast.entries
      [] ast.k = "LiteralMapExpr" -> [i \in 1..Len(ast.entries) |-> ast.entries[i].value]
      [] OTHER -> <<>>
UsesImports(ast) ==
    \/ ast.k \in {"ExternalExpr", "LocalizedString"}
    \/ \E i \in 1..Len(Children(ast)) : UsesImports(Children(ast)[i])

Start(call, target, manager) ==
    /\ pc = "idle"
    /\ input = call
    /\ scriptTarget = target
    /\ imports = manager
    /\ importCalls = <<>>
    /\ usedIdentifiers = <<>>
    /\ externalSourceFiles = NoFiles
    /\ ranges = NoRanges
    /\ pending = <<>>
    /\ processed = <<>>
    /\ visits = {}
    /\ result = Null

Init ==
    \/ \E call \in ChainCalls, target \in {ES5, ES2015} : Start(call, target, DefaultImports)
    \/ \E call \in FlatCalls, target \in ScriptTargets, manager \in ImportManagers :
            /\ UsesImports(call.ast) \/ manager = DefaultImports
            /\ Start(call, target, manager)
    \/ \E call \in LocalizedCalls, target \in {ES5, ES2015}, manager \in ImportManagers :
            /\ ~manager.renames
            /\ Start(call, target, manager)
    \/ \E call \in CommentCalls : Start(call, ES2015, DefaultImports)

\* ------------------------------------------------------------------ actions
EntryContext == Context(input.entry = "translateStatement")
\* the whole visit of the call's tree
Translation == Visit(input.ast, EntryContext, <<>>)

\* new ExpressionTranslatorVisitor(imports, defaultImportRecorder, scriptTarget): an
\* empty externalSourceFiles; the nodes of an earlier call are the caller's
NewVisitor ==
    /\ pc \in {"idle", "returned", "thrown"}
    /\ pc' = "running"
    /\ externalSourceFiles' = NoFiles
    /\ ranges' = NoRanges
    /\ importCalls' = <<>>
    /\ usedIdentifiers' = <<>>
    /\ pending' = Translation.trace
    /\ processed' = <<>>
    /\ visits' = {}
    /\ result' = Null
    /\ UNCHANGED <<input, scriptTarget, imports>>

TranslateExpression ==
    /\ input.entry = "translateExpression"
    /\ NewVisitor

TranslateStatement ==
    /\ input.entry = "translateStatement"
    /\ NewVisitor

\* the next call of the visit is this.setSourceMapRange(expr, sourceSpan)
SetSourceMapRange ==
    /\ pc = "running"
    /\ pending # <<>>
    /\ Head(pending).call = "setSourceMapRange"
    /\ LET call == Head(pending)
           set == setSourceMapRange(externalSourceFiles, call.sourceSpan, Len(processed) + 1)
       IN  /\ externalSourceFiles' = set.files
           /\ ranges' = IF set.range = Null THEN ranges
                        ELSE (call.node :> set.range[1]) @@ ranges
           /\ processed' = Append(processed, call)
    /\ pending' = Tail(pending)
    /\ UNCHANGED <<pc, input, scriptTarget, imports, importCalls, usedIdentifiers, visits,
                   result>>

\* the next call of the visit is this.imports.generateNamedImport(moduleName, name)
GenerateNamedImport ==
    /\ pc = "running"
    /\ pending # <<>>
    /\ Head(pending).call = "generateNamedImport"
    /\ importCalls' = Append(importCalls, <<Head(pending).moduleName, Head(pending).name>>)
    /\ processed' = Append(processed, Head(pending))
    /\ pending' = Tail(pending)
    /\ UNCHANGED <<pc, input, scriptTarget, imports, usedIdentifiers, externalSourceFiles,
                   ranges, visits, result>>

\* the next call of the visit is this.defaultImportRecorder.recordUsedIdentifier(node)
RecordUsedIdentifier ==
    /\ pc = "running"
    /\ pending # <<>>
    /\ Head(pending).call = "recordUsedIdentifier"
    /\ usedIdentifiers' = Append(usedIdentifiers, Head(pending).node)
    /\ processed' = Append(processed, Head(pending))
    /\ pending' = Tail(pending)
    /\ UNCHANGED <<pc, input, scriptTarget, imports, importCalls, externalSourceFiles,
                   ranges, visits, result>>

\* the visit returns its node to the caller of translateExpression / translateStatement
Return ==
    /\ pc = "running"
    /\ pending = <<>>
    /\ ~Translation.threw
    /\ pc' = "returned"
    /\ result' = Translation.node
    /\ visits' = Translation.visited
    /\ UNCHANGED <<input, scriptTarget, imports, importCalls, usedIdentifiers,
                   externalSourceFiles, ranges, pending, processed>>

\* a handler threw: the error reaches the caller and there is no node
Throw ==
    /\ pc = "running"
    /\ pending = <<>>
    /\ Translation.threw
    /\ pc' = "thrown"
    /\ result' = Null
    /\ visits' = Translation.visited
    /\ UNCHANGED <<input, scriptTarget, imports, importCalls, usedIdentifiers,
                   externalSourceFiles, ranges, pending, processed>>

\* attachComments(statement, leadingComments), called on its own
AttachComments ==
    /\ input.entry = "attachComments"
    /\ pc \in {"idle", "returned"}
    /\ pc' = "returned"
    /\ result' = Some(attachComments(input.statement, input.leadingComments))
    /\ UNCHANGED <<input, scriptTarget, imports, importCalls, usedIdentifiers,
                   externalSourceFiles, ranges, pending, processed, visits>>

Next ==
    \/ TranslateExpression
    \/ TranslateStatement
    \/ SetSourceMapRange
    \/ GenerateNamedImport
    \/ RecordUsedIdentifier
    \/ Return
    \/ Throw
    \/ AttachComments

Spec == Init /\ [][Next]_vars

\* ------------------------------------------------------------------------
\* What the claims speak of: the AST node at a path, the nodes of the output,
\* and the nodes of the output that stand directly inside parentheses.
RECURSIVE NodeAt(_, _)
NodeAt(ast, path) ==
    IF path = <<>> THEN ast ELSE NodeAt(Children(ast)[Head(path)], Tail(path))

RECURSIVE Descendants(_)
Descendants(node) ==
    {node} \cup UNION {Descendants(node.children[i]) : i \in 1..Len(node.children)}

IsTranslation == input.entry \in {"translateExpression", "translateStatement"}
Translated == IsTranslation /\ pc = "returned"
Visited(v) == NodeAt(input.ast, v.path)
Parent(path) == SubSeq(path, 1, Len(path) - 1)
Position(path) == path[Len(path)]
ParentOf(v) == NodeAt(input.ast, Parent(v.path))
OutputNodes == IF result = Null THEN {} ELSE Descendants(result[1])
Parenthesized ==
    {n.children[1].id : n \in {m \in OutputNodes : m.kind = "ParenthesizedExpression"}}
ExpressionKinds ==
    {"ReadVarExpr", "WriteVarExpr", "WriteKeyExpr", "WritePropExpr", "InvokeMethodExpr",
     "InvokeFunctionExpr", "InstantiateExpr", "LiteralExpr", "LocalizedString", "ExternalExpr",
     "ConditionalExpr", "NotExpr", "AssertNotNull", "CastExpr", "FunctionExpr",
     "UnaryOperatorExpr", "BinaryOperatorExpr", "ReadPropExpr", "ReadKeyExpr",
     "LiteralArrayExpr", "LiteralMapExpr", "CommaExpr", "WrappedNodeExpr", "TypeofExpr"}

\* ---------------------------------------------------------------------- C1
\* the positions C1 calls expression position and statement position (a cast or a
\* non-null assertion has no output of its own and is not counted as a nesting)
InExpressionPosition(v) ==
    /\ v.path # <<>>
    /\ \/ ParentOf(v).k \in ExpressionKinds \ {"CastExpr", "AssertNotNull"}
       \/ ParentOf(v).k \in {"ReturnStatement", "ThrowStmt", "DeclareVarStmt"}
       \/ ParentOf(v).k = "IfStmt" /\ Position(v.path) = 1
InStatementPosition(v) ==
    /\ v.path # <<>>
    /\ ParentOf(v).k = "ExpressionStatement"

\* C1 as claimed: in every translated tree, a write-variable node in expression
\* position (nested in another expression, or the value of a return, throw,
\* declare-variable or if-condition) has its assignment in parentheses, and one that
\* is the direct expression of an expression-statement has not.
C1_AsClaimed ==
    Translated =>
        \A v \in visits :
            Visited(v).k = "WriteVarExpr" =>
                /\ InExpressionPosition(v) => Id(v.path, "main") \in Parenthesized
                /\ InStatementPosition(v) => Id(v.path, "main") \notin Parenthesized

\* C1, amended: a write-variable node's assignment is in parentheses exactly when
\* the node is visited in expression-mode context.  It is so visited, and
\* parenthesized, as the value of a return, throw or declare-variable and as a child
\* of a write-by-key; it is visited in statement mode, and not parenthesized, as
\* the direct expression of an expression-statement.
C1_WriteVarParenthesizedByContext ==
    Translated =>
        \A v \in visits :
            Visited(v).k = "WriteVarExpr" =>
                /\ Id(v.path, "main") \in Parenthesized <=> ~v.isStatement
                /\ InStatementPosition(v) => Id(v.path, "main") \notin Parenthesized
                /\ /\ v.path # <<>>
                   /\ ParentOf(v).k \in
                          {"ReturnStatement", "ThrowStmt", "DeclareVarStmt", "WriteKeyExpr"}
                   => Id(v.path, "main") \in Parenthesized

\* a write-variable nested in a binary operation below an expression-statement,
\* translated without parentheses
C1_Witness ==
    /\ Translated
    /\ \E v \in visits :
          /\ Visited(v).k = "WriteVarExpr"
          /\ Len(v.path) = 2
          /\ ParentOf(v).k = "BinaryOperatorExpr"
          /\ input.ast.k = "ExpressionStatement"
          /\ Id(v.path, "main") \notin Parenthesized

\* ---------------------------------------------------------------------- C2
\* C2: in every translated tree, a conditional that is the condition of another
\* conditional is rendered in parentheses, and a conditional in any other position
\* (a true or false case, or below any other node) is not.
C2_ConditionParenthesized ==
    Translated =>
        \A v \in visits :
            Visited(v).k = "ConditionalExpr" =>
                (Id(v.path, "main") \in Parenthesized
                    <=> /\ v.path # <<>>
                        /\ ParentOf(v).k = "ConditionalExpr"
                        /\ Position(v.path) = 1)

\* a conditional that is the condition of a conditional, translated in parentheses
C2_Witness ==
    /\ Translated
    /\ \E v \in visits :
          /\ Visited(v).k = "ConditionalExpr"
          /\ v.path # <<>>
          /\ ParentOf(v).k = "ConditionalExpr"
          /\ Position(v.path) = 1
          /\ Id(v.path, "main") \in Parenthesized

\* ---------------------------------------------------------------------- C3
\* the literal pieces and the spliced expressions of a tagged template
TemplatePieces(node) ==
    LET template == node.children[2]
        Piece(n) == [cooked |-> n.text, raw |-> n.rawText]
    IN  IF template.kind = "NoSubstitutionTemplateLiteral" THEN <<Piece(template)>>
        ELSE [i \in 1..Len(template.children) |->
                 IF i = 1 THEN Piece(template.children[1])
                 ELSE Piece(template.children[i].children[2])]
TemplateExpressions(node) ==
    LET template == node.children[2]
    IN  IF template.kind = "NoSubstitutionTemplateLiteral" THEN <<>>
        ELSE [i \in 1..(Len(template.children) - 1) |-> template.children[i + 1].children[1]]
\* the literal pieces and the spliced expressions of a $localize(__makeTemplateObject(
\* cooked, raw), ...expressions) call
CallPieces(node) ==
    LET cooked == node.children[2].children[2].children
        raw == node.children[2].children[3].children
    IN  [i \in 1..Len(cooked) |-> [cooked |-> cooked[i].text, raw |-> raw[i].text]]
CallExpressions(node) == SubSeq(node.children, 3, Len(node.children))

\* C3: for every localized string visited, with k expressions and k+1 message
\* parts, the tagged template of ES2015 and above and the function call of the
\* targets below it both hold exactly the k translated expressions, in the order of
\* the node's expressions, and the same k+1 literal pieces, cooked and raw text part
\* by part; the lowering of the call's target is the node of the output.
C3_SameInterleaving ==
    IsTranslation /\ pc \in {"returned", "thrown"} =>
        \A v \in visits :
            Visited(v).k = "LocalizedString" =>
                LET ast == Visited(v)
                    context == Context(v.isStatement)
                    k == Len(ast.expressions)
                    modern == createLocalizedStringTaggedTemplate(ast, context, v.path)
                    legacy == createLocalizedStringFunctionCall(ast, context, v.path)
                IN  /\ modern.threw = legacy.threw
                    /\ ~modern.threw =>
                        /\ Len(TemplateExpressions(modern.node[1])) = k
                        /\ TemplateExpressions(modern.node[1]) = CallExpressions(legacy.node[1])
                        /\ \A i \in 1..k :
                              LET e == Visit(ast.expressions[i], context, Append(v.path, i))
                              IN  CallExpressions(legacy.node[1])[i] = e.node[1]
                        /\ Len(TemplatePieces(modern.node[1])) = k + 1
                        /\ TemplatePieces(modern.node[1]) = CallPieces(legacy.node[1])
                        /\ \A i \in 1..(k + 1) :
                              CallPieces(legacy.node[1])[i] = serializeI18nPart(ast.messageParts[i])
                    /\ pc = "returned" =>
                        (IF scriptTarget >= ES2015 THEN modern ELSE legacy).node[1] \in OutputNodes

\* a localized string of two expressions and three parts with meta blocks, lowered
\* to the function call
C3_Witness ==
    /\ Translated
    /\ scriptTarget < ES2015
    /\ input.ast.k = "LocalizedString"
    /\ Len(input.ast.expressions) = 2
    /\ input.ast.messageParts[1].metaBlock # ""
    /\ Len(CallExpressions(result[1])) = 2
    /\ Len(CallPieces(result[1])) = 3

\* ---------------------------------------------------------------------- C4
LineBreaks(text) == Cardinality({i \in 1..Len(text) : text[i] = NewLine})
\* the trivia units a comment adds
UnitCount(comment) == IF comment.multiline THEN 1 ELSE LineBreaks(comment.text) + 1
RECURSIVE UnitsBefore(_, _)
UnitsBefore(list, i) ==
    IF i = 1 THEN 0 ELSE UnitsBefore(list, i - 1) + UnitCount(list[i - 1])
\* the lines put together again, a line break between two lines
RECURSIVE Join(_)
Join(lines) ==
    IF Len(lines) = 1 THEN lines[1] ELSE lines[1] \o <<NewLine>> \o Join(Tail(lines))

\* C4: attachComments adds, for each comment of the list in the list's order, one
\* block unit for a block comment, and for a single-line comment whose text has n
\* line breaks n+1 single-line units, one per line in the text's order, each with
\* the comment's trailing-newline flag and the line's text unchanged; without a
\* list it adds nothing.
C4_OneUnitPerLine ==
    input.entry = "attachComments" /\ pc = "returned" =>
        LET units == result[1].comments
            list == IF input.leadingComments.defined THEN input.leadingComments.list ELSE <<>>
        IN  /\ Len(units) = UnitsBefore(list, Len(list) + 1)
            /\ \A i \in 1..Len(list) :
                  LET comment == list[i]
                      first == UnitsBefore(list, i) + 1
                      last == UnitsBefore(list, i + 1)
                      own == SubSeq(units, first, last)
                  IN  /\ \A j \in 1..Len(own) :
                            own[j].hasTrailingNewLine = comment.trailingNewline
                      /\ comment.multiline =>
                            /\ Len(own) = 1
                            /\ own[1].kind = "MultiLineCommentTrivia"
                            /\ own[1].text = CommentToString(comment)
                      /\ ~comment.multiline =>
                            /\ Len(own) = LineBreaks(comment.text) + 1
                            /\ \A j \in 1..Len(own) :
                                  /\ own[j].kind = "SingleLineCommentTrivia"
                                  /\ LineBreaks(own[j].text) = 0
                            /\ Join([j \in 1..Len(own) |-> own[j].text]) = comment.text

\* a single-line comment of two line breaks, the middle line empty, after a block
\* comment: four units
C4_Witness ==
    /\ input.entry = "attachComments"
    /\ pc = "returned"
    /\ input.leadingComments.defined
    /\ Len(input.leadingComments.list) = 2
    /\ input.leadingComments.list[1].multiline
    /\ ~input.leadingComments.list[2].multiline
    /\ input.leadingComments.list[2].text = <<"a", NewLine, NewLine>>
    /\ Len(result[1].comments) = 4

\* ---------------------------------------------------------------------- C5
\* the calls of generateNamedImport made for (moduleName, name)
ImportCallsFor(moduleName, name) ==
    Cardinality({i \in 1..Len(importCalls) : importCalls[i] = <<moduleName, name>>})

\* C5: of an external reference with a symbol name and a module name the import
\* manager is asked once, with (module, symbol), and the output is the access
\* alias.symbol of the returned alias and symbol, or the returned symbol alone when
\* no alias is returned; without a module name the output is the symbol name and the
\* import manager is not asked; without a symbol name the translation fails and the
\* import manager has not been asked for the reference.
C5_ExternalReference ==
    IsTranslation /\ pc \in {"returned", "thrown"} =>
        \A v \in visits :
            Visited(v).k = "ExternalExpr" =>
                LET ast == Visited(v)
                    same == {w \in visits : Visited(w) = ast}
                    import == generateNamedImport(ast.moduleName, ast.name)
                IN  /\ ast.name = NoName =>
                        /\ pc = "thrown"
                        /\ ImportCallsFor(ast.moduleName, ast.name) = 0
                    /\ ast.name # NoName /\ ast.moduleName # NoName =>
                        /\ ImportCallsFor(ast.moduleName, ast.name) = Cardinality(same)
                        /\ pc = "returned" =>
                            \E n \in OutputNodes :
                                /\ n.id = Id(v.path, "main")
                                /\ IF imports.moduleImport # Null
                                   THEN /\ n.kind = "PropertyAccessExpression"
                                        /\ Len(n.children) = 2
                                        /\ n.children[1].kind = "Identifier"
                                        /\ n.children[1].text = imports.moduleImport[1]
                                        /\ n.children[2].kind = "Identifier"
                                        /\ n.children[2].text = import.symbol
                                   ELSE /\ n.kind = "Identifier"
                                        /\ n.text = import.symbol
                    /\ ast.name # NoName /\ ast.moduleName = NoName =>
                        /\ ImportCallsFor(ast.moduleName, ast.name) = 0
                        /\ pc = "returned" =>
                            \E n \in OutputNodes :
                                /\ n.id = Id(v.path, "main")
                                /\ n.kind = "Identifier"
                                /\ n.text = ast.name

\* an external reference of a module, translated to alias.symbol after one call of
\* the import manager
C5_Witness ==
    /\ Translated
    /\ input.ast.k = "ExternalExpr"
    /\ input.ast.moduleName = "m"
    /\ imports.moduleImport # Null
    /\ importCalls = <<<<"m", "s">>>>
    /\ result[1].kind = "PropertyAccessExpression"

\* ---------------------------------------------------------------------- C6
\* C6: every translated declare-variable statement has the binding kind const when
\* the target is ES2015 or above and the statement is final, let when the target is
\* ES2015 or above and it is not, and var (no flag) below ES2015, final or not.
C6_BindingKind ==
    Translated =>
        \A v \in visits :
            Visited(v).k = "DeclareVarStmt" =>
                \E list \in OutputNodes :
                    /\ list.id = Id(v.path, "declarationList")
                    /\ list.kind = "VariableDeclarationList"
                    /\ scriptTarget >= ES2015 /\ Visited(v).final => list.text = "Const"
                    /\ scriptTarget >= ES2015 /\ ~Visited(v).final => list.text = "Let"
                    /\ scriptTarget < ES2015 => list.text = "None"

\* a final declare-variable translated for a target below ES2015, as a var
C6_Witness ==
    /\ Translated
    /\ scriptTarget < ES2015
    /\ input.ast.k = "DeclareVarStmt"
    /\ input.ast.final
    /\ result[1].children[1].text = "None"

\* ---------------------------------------------------------------------- C7
RECURSIVE ContainsUnsupported(_)
ContainsUnsupported(ast) ==
    \/ ast.k \in {"ClassStmt", "TryCatchStmt", "CommaExpr"}
    \/ \E i \in 1..Len(Children(ast)) : ContainsUnsupported(Children(ast)[i])

\* C7: a translation of a tree that holds a declare-class statement, a try-catch
\* statement or a comma expression at any depth never returns a node: at every
\* target it ends in an error, with no output.
C7_UnsupportedAlwaysThrows ==
    IsTranslation /\ ContainsUnsupported(input.ast) =>
        /\ pc # "returned"
        /\ result = Null

\* a translation for ES2015 or above that ended in the error of a declare-class
\* statement nested in another statement
C7_Witness ==
    /\ IsTranslation
    /\ pc = "thrown"
    /\ scriptTarget >= ES2015
    /\ input.ast.k # "ClassStmt"
    /\ \E v \in visits : Visited(v).k = "ClassStmt"
    /\ result = Null

\* ---------------------------------------------------------------------- C8
\* the output node of a visited node
OutputOf(v) == Visit(Visited(v), Context(v.isStatement), v.path).node[1].id
HasUrl(sourceSpan) == sourceSpan # Null /\ sourceSpan[1].url # ""
\* the range of a span, as the run's cache ties it to the span's file
RangeOf(sourceSpan) ==
    [pos |-> sourceSpan[1].start, end |-> sourceSpan[1].end,
     source |-> externalSourceFiles[sourceSpan[1].url]]

\* C8 as claimed: every visited node with a span has the span's range on its output
\* node, and every node without one has no range.
C8_AsClaimed ==
    Translated =>
        \A v \in visits :
            IF Visited(v).sourceSpan # Null
            THEN /\ OutputOf(v) \in DOMAIN ranges
                 /\ Visited(v).sourceSpan[1].url \in DOMAIN externalSourceFiles
                 /\ ranges[OutputOf(v)] = RangeOf(Visited(v).sourceSpan)
            ELSE OutputOf(v) \notin DOMAIN ranges

\* the kinds whose handlers set a range from the node's own span
MappedKinds ==
    {"ReadVarExpr", "InvokeMethodExpr", "InvokeFunctionExpr", "LiteralExpr", "LocalizedString",
     "LiteralArrayExpr", "LiteralMapExpr"}
\* a cast and a non-null assertion return the node of their operand: the topmost
\* node that returns the output node of the node at `path`
RECURSIVE Carrier(_)
Carrier(path) ==
    IF path # <<>> /\ NodeAt(input.ast, Parent(path)).k \in {"CastExpr", "AssertNotNull"}
    THEN Carrier(Parent(path))
    ELSE path
\* the placeholder span set on the output node of the node at `path`: that of the
\* expression of a localized string lowered to a tagged template
PlaceholderSpan(path) ==
    LET top == Carrier(path)
    IN  IF /\ top # <<>>
           /\ NodeAt(input.ast, Parent(top)).k = "LocalizedString"
           /\ scriptTarget >= ES2015
        THEN NodeAt(input.ast, Parent(top)).placeholderSpans[Position(top)]
        ELSE Null

\* C8, amended: after a successful translation the output node of a visited node
\* other than a cast or a non-null assertion (which have no output node of their
\* own) has the range of the placeholder span, when the node is an expression of a
\* localized string lowered to a tagged template and that span has a file url;
\* otherwise the range of the node's own span, when the node is a read-variable, an
\* invoke-method, an invoke-function, a literal, a localized string, a literal array
\* or a literal map and its span has a file url; otherwise no range. A range has the
\* span's start and end offsets and the descriptor the cache holds for the url.
C8_RangesOfMappedKinds ==
    Translated =>
        \A v \in visits :
            Visited(v).k \notin {"CastExpr", "AssertNotNull"} =>
                LET ast == Visited(v)
                    placeholder == PlaceholderSpan(v.path)
                IN  IF HasUrl(placeholder)
                    THEN /\ OutputOf(v) \in DOMAIN ranges
                         /\ placeholder[1].url \in DOMAIN externalSourceFiles
                         /\ ranges[OutputOf(v)] = RangeOf(placeholder)
                    ELSE IF ast.k \in MappedKinds /\ HasUrl(ast.sourceSpan)
                    THEN /\ OutputOf(v) \in DOMAIN ranges
                         /\ ast.sourceSpan[1].url \in DOMAIN externalSourceFiles
                         /\ ranges[OutputOf(v)] = RangeOf(ast.sourceSpan)
                    ELSE OutputOf(v) \notin DOMAIN ranges

\* a binary operation with a span, translated without a range, its read-variable
\* operand with the range of its own span
C8_Witness ==
    /\ Translated
    /\ input.ast.k = "BinaryOperatorExpr"
    /\ input.ast.sourceSpan = SpanB
    /\ result[1].id \notin DOMAIN ranges
    /\ input.ast.lhs.k = "ReadVarExpr"
    /\ input.ast.lhs.sourceSpan = SpanA
    /\ result[1].children[1].id \in DOMAIN ranges
    /\ ranges[result[1].children[1].id].pos = 1
    /\ ranges[result[1].children[1].id].end = 5

\* ---------------------------------------------------------------------- C9
\* the calls of setSourceMapRange made so far that refer to a file url
References == {i \in 1..Len(processed) :
                  processed[i].call = "setSourceMapRange" /\ HasUrl(processed[i].sourceSpan)}
UrlOf(i) == processed[i].sourceSpan[1].url
FirstReference(url) ==
    CHOOSE i \in References :
        UrlOf(i) = url /\ \A j \in References : UrlOf(j) = url => i <= j

\* at every point of a run the cache holds a descriptor for exactly the urls
\* referred to so far, each the one created at the first reference to its url, and
\* every range attached so far is tied to the descriptor the cache holds for its url
CacheOfReferences ==
    /\ DOMAIN externalSourceFiles = {UrlOf(i) : i \in References}
    /\ \A url \in DOMAIN externalSourceFiles :
          externalSourceFiles[url] = createSourceMapSource(url, FirstReference(url))
    /\ \A id \in DOMAIN ranges :
          /\ ranges[id].source.url \in DOMAIN externalSourceFiles
          /\ ranges[id].source = externalSourceFiles[ranges[id].source.url]
\* within a run no entry of the cache is replaced or removed; a call of
\* translateExpression or translateStatement starts with an empty cache
CacheStep ==
    /\ pc = "running" =>
          \A url \in DOMAIN externalSourceFiles :
              /\ url \in DOMAIN externalSourceFiles'
              /\ externalSourceFiles'[url] = externalSourceFiles[url]
    /\ pc # "running" /\ pc' = "running" => externalSourceFiles' = NoFiles

\* C9: within one run the cache of source-file descriptors holds exactly one
\* descriptor for each file url referred to so far, created at the first reference
\* to the url and used by every later attachment for it, and no entry is replaced or
\* removed before the run ends; a new call starts with an empty cache.
C9_OneDescriptorPerUrl == []CacheOfReferences /\ [][CacheStep]_vars

\* a run that has referred to two urls, to one of them twice
C9_Witness ==
    /\ pc = "running"
    /\ Cardinality(DOMAIN externalSourceFiles) = 2
    /\ \E i, j \in References : i < j /\ UrlOf(i) = UrlOf(j)
    /\ \E id \in DOMAIN ranges : ranges[id].source.created < Len(processed)

\* --------------------------------------------------------------------- C10
\* C10 as claimed: every statement visited as a child is visited in statement mode
\* and every expression visited as a child in expression mode.
C10_AsClaimed ==
    IsTranslation =>
        \A v \in visits :
            v.path # <<>> => (v.isStatement <=> Visited(v).k \in StatementKinds)

\* the context a parent, visited in statement mode or not, hands to its child
ChildIsStatement(parent, position, parentIsStatement) ==
    CASE parent.k \in {"DeclareFunctionStmt", "ExpressionStatement"} -> TRUE
      [] parent.k = "IfStmt" -> IF position = 1 THEN parentIsStatement ELSE TRUE
      [] parent.k \in {"DeclareVarStmt", "ReturnStatement", "ThrowStmt", "WriteKeyExpr"} -> FALSE
      [] OTHER -> parentIsStatement

\* C10, amended: the statements of a declare-function and of the branches of an if
\* are visited in statement mode, and so is the expression of an
\* expression-statement; the value of a declare-variable, return or throw and the
\* children of a write-by-key are visited in expression mode; every other child (an
\* operand, a call argument, the value of a write-variable, an array or map entry,
\* the condition of an if, a statement of a function literal) is visited in the
\* context its parent was visited in.
C10_ChildContext ==
    IsTranslation =>
        \A v \in visits :
            v.path # <<>> =>
                \E parent \in visits :
                    /\ parent.path = Parent(v.path)
                    /\ v.isStatement =
                           ChildIsStatement(Visited(parent), Position(v.path), parent.isStatement)

\* an operand of a binary operation below an expression-statement, visited in
\* statement mode
C10_Witness ==
    /\ Translated
    /\ \E v \in visits :
          /\ Len(v.path) = 2
          /\ ParentOf(v).k = "BinaryOperatorExpr"
          /\ input.ast.k = "ExpressionStatement"
          /\ v.isStatement

\* --------------------------------------------------------------------- C11
WrappingStatements == {"ExpressionStatement", "ReturnStatement", "ThrowStmt"}
OutputKindOf(kind) ==
    CASE kind = "ExpressionStatement" -> "ExpressionStatement"
      [] kind = "ReturnStatement" -> "ReturnStatement"
      [] kind = "ThrowStmt" -> "ThrowStatement"
\* the visit of the expression an expression-statement, return or throw contains
ContainedVisit(v) == CHOOSE w \in visits : w.path = Append(v.path, 1)
\* the expression below the casts and non-null assertions around it
RECURSIVE Uncast(_)
Uncast(ast) ==
    IF ast.k = "CastExpr" THEN Uncast(ast.value)
    ELSE IF ast.k = "AssertNotNull" THEN Uncast(ast.condition)
    ELSE ast
\* the statement's output node holds the node the visit of its expression returned
\* and nothing else, and that node is a parenthesized expression only when the
\* expression's own handler made it one
WrapsWithoutParentheses(v) ==
    LET w == ContainedVisit(v)
        returned == Visit(Visited(w), Context(w.isStatement), w.path).node[1]
    IN  \E n \in OutputNodes :
            /\ n.id = Id(v.path, "main")
            /\ n.kind = OutputKindOf(Visited(v).k)
            /\ n.children = <<returned>>
            /\ n.children[1].kind = "ParenthesizedExpression" =>
                  /\ ~w.isStatement
                  /\ Uncast(Visited(w)).k \in {"WriteVarExpr", "WriteKeyExpr"}

\* C11 as claimed: the expression of every expression-statement, return and throw
\* is visited in expression mode, and the statement wraps the node of that visit
\* without parentheses of its own.
C11_AsClaimed ==
    Translated =>
        \A v \in visits :
            Visited(v).k \in WrappingStatements =>
                /\ ~ContainedVisit(v).isStatement
                /\ WrapsWithoutParentheses(v)

\* C11, amended: the value of a return and of a throw is visited in expression
\* mode and the expression of an expression-statement in statement mode; each of
\* the three statements wraps the node of that visit with no parentheses added
\* around it.
C11_WrappedByStatementKind ==
    Translated =>
        \A v \in visits :
            Visited(v).k \in WrappingStatements =>
                /\ ContainedVisit(v).isStatement <=> Visited(v).k = "ExpressionStatement"
                /\ WrapsWithoutParentheses(v)

\* an expression-statement of a write-variable, the write-variable visited in
\* statement mode and wrapped as a bare assignment
C11_Witness ==
    /\ Translated
    /\ input.ast.k = "ExpressionStatement"
    /\ input.ast.expr.k = "WriteVarExpr"
    /\ [path |-> <<1>>, isStatement |-> TRUE] \in visits
    /\ result[1].kind = "ExpressionStatement"
    /\ result[1].children[1].kind = "BinaryExpression"

\* --------------------------------------------------------------------- C12
\* C12: a write-by-key node's assignment is without parentheses when the node is
\* visited in statement-mode context and in parentheses otherwise, as the
\* assignment of a write-variable visited in the same context is.
C12_WriteKeyAsWriteVar ==
    Translated =>
        \A v \in visits :
            Visited(v).k = "WriteKeyExpr" =>
                LET context == Context(v.isStatement)
                    writeVar == visitWriteVarExpr(WriteVarExpr("k", Visited(v).value, Null),
                                                  context, v.path)
                IN  /\ \E n \in OutputNodes :
                          n.id = Id(v.path, "main") /\ n.kind = "BinaryExpression"
                    /\ Id(v.path, "main") \in Parenthesized <=> ~v.isStatement
                    /\ ~writeVar.threw
                    /\ Id(v.path, "main") \in Parenthesized
                          <=> writeVar.node[1].kind = "ParenthesizedExpression"

\* a write-by-key that is the expression of an expression-statement, translated
\* without parentheses
C12_Witness ==
    /\ Translated
    /\ input.ast.k = "ExpressionStatement"
    /\ input.ast.expr.k = "WriteKeyExpr"
    /\ result[1].children[1].kind = "BinaryExpression"
    /\ result[1].children[1].id = Id(<<1>>, "main")
    /\ Id(<<1>>, "main") \notin Parenthesized

\* --------------------------------------------------------------------- C13
\* C13: a write-property node's assignment is never in parentheses, whether the
\* node is visited in statement mode or in expression mode, nested in another
\* expression included.
C13_WritePropNeverParenthesized ==
    Translated =>
        \A v \in visits :
            Visited(v).k = "WritePropExpr" =>
                /\ \E n \in OutputNodes :
                      n.id = Id(v.path, "main") /\ n.kind = "BinaryExpression"
                /\ Id(v.path, "main") \notin Parenthesized
                /\ \A n \in OutputNodes : n.id # Id(v.path, "paren")

\* a write-property that is an operand of a binary operation below a return,
\* visited in expression mode and translated without parentheses
C13_Witness ==
    /\ Translated
    /\ input.ast.k = "ReturnStatement"
    /\ \E v \in visits :
          /\ Visited(v).k = "WritePropExpr"
          /\ Len(v.path) = 2
          /\ ParentOf(v).k = "BinaryOperatorExpr"
          /\ ~v.isStatement
          /\ Id(v.path, "main") \notin Parenthesized
          /\ \E n \in OutputNodes : n.id = Id(v.path, "main")

====
